---- MODULE Spec2Model ----
(***************************************************************************)
(* Medical Query Firewall: the decision pipeline of app/utils.py (PII      *)
(* masking, rule matching, classification, decision_aggregator) and the    *)
(* HTTP handlers of app/app.py that drive it and the audit table of        *)
(* app/audit_db.py.                                                        *)
(*                                                                         *)
(* Probabilities and thresholds are exact rationals in thousandths         *)
(* (0.85 is 850).  A text is a sequence of tokens; a rule pattern is a     *)
(* keyword and re.search(pattern, text, IGNORECASE) is a case-insensitive  *)
(* search of that keyword among the tokens.                                *)
(***************************************************************************)
EXTENDS Integers, Sequences, FiniteSets, TLC

\* ------------------------------------------------------------------ bounds
\* HTTP requests served in one behaviour (METRICS['requests'] is unbounded).
MaxRequests == 2
\* Longest rule list drawn for the aggregator's inputs.
MaxRules == 2

\* ------------------------------------------------------------- text model
EmailTok == "pat@mail.org"
PhoneTok == "9876543210"
AadhaarTok == "123456789012"

\* str.lower() / re.IGNORECASE on the tokens of the model.
Lower(tok) ==
    CASE tok = "HURT" -> "hurt"
      [] tok = "Flu" -> "flu"
      [] tok = "DOSE" -> "dose"
      [] OTHER -> tok

\* str.upper() on the severity / action strings of a rule.
Upper(s) ==
    CASE s = "high" -> "HIGH"
      [] s = "medium" -> "MEDIUM"
      [] s = "low" -> "LOW"
      [] s = "block" -> "BLOCK"
      [] s = "warn" -> "WARN"
      [] OTHER -> s

\* PII_PATTERNS, in dict order: email, phone (10 digits), aadhaar (12 digits).
PII_PATTERNS == <<"email", "phone", "aadhaar">>

PiiMatches(name, tok) ==
    CASE name = "email" -> tok = EmailTok
      [] name = "phone" -> tok = PhoneTok
      [] name = "aadhaar" -> tok = AadhaarTok
      [] OTHER -> FALSE

Placeholder(name) ==
    CASE name = "email" -> "[EMAIL]"
      [] name = "phone" -> "[PHONE]"
      [] name = "aadhaar" -> "[AADHAAR]"
      [] OTHER -> name

RECURSIVE MaskFrom(_, _, _)
MaskFrom(i, masked, found) ==
    IF i > Len(PII_PATTERNS) THEN [masked_text |-> masked, pii |-> found]
    ELSE LET name == PII_PATTERNS[i] IN
         IF \E k \in 1..Len(masked) : PiiMatches(name, masked[k])
         THEN MaskFrom(i + 1,
                       [k \in 1..Len(masked) |->
                          IF PiiMatches(name, masked[k]) THEN Placeholder(name)
                          ELSE masked[k]],
                       Append(found, name))
         ELSE MaskFrom(i + 1, masked, found)

\* mask_pii(text): each category is tested against the text masked so far.
mask_pii(text) == MaskFrom(1, text, <<>>)

\* ------------------------------------------------------------ rule engine
\* re.compile(pattern): "(" is an unbalanced group and raises re.error.
BadPattern == "("
Compiles(pattern) == pattern # BadPattern

\* patt.search(text) with re.IGNORECASE, for a keyword pattern.
Search(pattern, text) ==
    \E k \in 1..Len(text) : Lower(text[k]) = Lower(pattern)

\* match_rules(text) over the rule list `rules`: every rule's pattern is
\* compiled in list order, so one malformed pattern raises for the whole call.
match_rules(rules, text) ==
    IF \E i \in 1..Len(rules) : ~Compiles(rules[i].pattern)
    THEN [raised |-> TRUE, matches |-> <<>>]
    ELSE [raised |-> FALSE,
          matches |-> SelectSeq(rules, LAMBDA r : Search(r.pattern, text))]

\* ------------------------------------------------------------- classifier
\* clf.classes_ (sorted labels of the training data).
Classes == <<"general_info", "prescription_request", "procedural", "self_harm">>
ClassSet == {Classes[i] : i \in 1..Len(Classes)}

\* proba.argmax(): the first index holding the maximum.
ArgMax(dist) ==
    CHOOSE i \in 1..Len(Classes) :
        /\ \A j \in 1..Len(Classes) : dist[Classes[j]] <= dist[Classes[i]]
        /\ \A j \in 1..(i - 1) : dist[Classes[j]] < dist[Classes[i]]

\* classify_text(text), given the distribution predict_proba returned for it.
classify_text(dist) ==
    [label |-> Classes[ArgMax(dist)],
     score |-> dist[Classes[ArgMax(dist)]],
     proba |-> dist]

\* ------------------------------------------------------------- thresholds
\* Keys of CLASS_THRESHOLDS in dict order.
HazardClasses == <<"self_harm", "prescription_request", "procedural">>

CLASS_THRESHOLDS ==
    [c \in {"self_harm", "prescription_request", "procedural"} |->
        CASE c = "self_harm" -> 400
          [] c = "prescription_request" -> 600
          [] c = "procedural" -> 550]

WARN_THRESHOLDS ==
    [c \in {"self_harm", "prescription_request", "procedural"} |->
        CASE c = "self_harm" -> 250
          [] c = "prescription_request" -> 400
          [] c = "procedural" -> 350]

\* Tier-3 cut-offs on the top score.
FallbackBlock == 850
FallbackWarn == 500

\* proba.get(cls_name, 0.0)
ProbOf(proba, c) == IF c \in DOMAIN proba THEN proba[c] ELSE 0

\* WARN_THRESHOLDS.get(cls_name, blk_thr * 0.6)
WarnThr(warn, blk, c) == IF c \in DOMAIN warn THEN warn[c] ELSE (blk[c] * 6) \div 10

\* prob >= blk_thr
IsBlockHit(proba, blk, c) == ProbOf(proba, c) >= blk[c]

\* else-branch: prob >= warn_thr, with the fallback compared exactly
\* (10 * prob >= 6 * blk_thr) when no warn threshold is configured.
IsWarnHit(proba, blk, warn, c) ==
    /\ ~IsBlockHit(proba, blk, c)
    /\ IF c \in DOMAIN warn THEN ProbOf(proba, c) >= warn[c]
       ELSE 10 * ProbOf(proba, c) >= 6 * blk[c]

\* Mutant: only the classifier's top label is compared with its threshold.
BlockHits_TopOnly(proba, blk) ==
    LET all == [i \in 1..Len(HazardClasses) |->
                  [class |-> HazardClasses[i],
                   prob |-> ProbOf(proba, HazardClasses[i]),
                   threshold |-> blk[HazardClasses[i]]]]
    IN SelectSeq(all, LAMBDA h : /\ IsBlockHit(proba, blk, h.class)
                                 /\ h.class = Classes[ArgMax(proba)])

BlockHits(proba, blk) ==
    LET all == [i \in 1..Len(HazardClasses) |->
                  [class |-> HazardClasses[i],
                   prob |-> ProbOf(proba, HazardClasses[i]),
                   threshold |-> blk[HazardClasses[i]]]]
    IN SelectSeq(all, LAMBDA h : IsBlockHit(proba, blk, h.class))

WarnHits(proba, blk, warn) ==
    LET all == [i \in 1..Len(HazardClasses) |->
                  [class |-> HazardClasses[i],
                   prob |-> ProbOf(proba, HazardClasses[i]),
                   threshold |-> WarnThr(warn, blk, HazardClasses[i])]]
    IN SelectSeq(all, LAMBDA h : IsWarnHit(proba, blk, warn, h.class))

\* Mutant: only the first matched rule is looked at.
HasHighBlock_FirstOnly(matches) ==
    /\ Len(matches) > 0
    /\ Upper(matches[1].severity) = "HIGH" /\ Upper(matches[1].action) = "BLOCK"

\* Mutant: all() in place of any().
HasHighBlock_All(matches) ==
    /\ Len(matches) > 0
    /\ \A i \in 1..Len(matches) :
          Upper(matches[i].severity) = "HIGH" /\ Upper(matches[i].action) = "BLOCK"

\* any(r["severity"].upper() == "HIGH" and r["action"].upper() == "BLOCK" ...)
HasHighBlock(matches) ==
    \E i \in 1..Len(matches) :
        Upper(matches[i].severity) = "HIGH" /\ Upper(matches[i].action) = "BLOCK"

\* Mutant: strict comparisons at the two cut-offs.
FallbackDecision_Strict(top_score) ==
    IF top_score > FallbackBlock THEN "BLOCK"
    ELSE IF top_score > FallbackWarn THEN "WARN"
    ELSE "ALLOW"

\* Tier 3: the top-score fallback.
FallbackDecision(top_score) ==
    IF top_score >= FallbackBlock THEN "BLOCK"
    ELSE IF top_score >= FallbackWarn THEN "WARN"
    ELSE "ALLOW"

\* decision_aggregator(text) under rule list `rules`, threshold tables `blk`
\* and `warn`, with `dist` the distribution the classifier returns for text.
\* A malformed rule pattern makes match_rules raise: no decision is returned.
decision_aggregator(rules, blk, warn, text, dist) ==
    LET m == match_rules(rules, text)
        r_matches == m.matches
        clf_res == classify_text(dist)
        block_hits == BlockHits(clf_res.proba, blk)
        warn_hits == WarnHits(clf_res.proba, blk, warn)
    IN IF m.raised THEN [raised |-> TRUE]
       ELSE IF HasHighBlock(r_matches)
       THEN [raised |-> FALSE, decision |-> "BLOCK",
             matched_rules |-> r_matches, classifier |-> clf_res]
       ELSE IF block_hits # <<>>
       THEN [raised |-> FALSE, decision |-> "BLOCK",
             matched_rules |-> r_matches, classifier |-> clf_res,
             block_hits |-> block_hits]
       ELSE IF warn_hits # <<>>
       THEN [raised |-> FALSE, decision |-> "WARN",
             matched_rules |-> r_matches, classifier |-> clf_res,
             warn_hits |-> warn_hits]
       ELSE [raised |-> FALSE, decision |-> FallbackDecision(clf_res.score),
             matched_rules |-> r_matches, classifier |-> clf_res]

\* ---------------------------------------------------------------- inputs
\* Rule records as rules/rules.json holds them.
RuleHurt == [id |-> "R1", pattern |-> "hurt", severity |-> "HIGH",
             action |-> "BLOCK", explanation |-> "self-harm intent"]
RuleDose == [id |-> "R2", pattern |-> "dose", severity |-> "MEDIUM",
             action |-> "WARN", explanation |-> "dosage request"]
RuleDoseLc == [id |-> "R3", pattern |-> "DOSE", severity |-> "high",
               action |-> "block", explanation |-> "dosage hard deny"]
RuleBad == [id |-> "R9", pattern |-> BadPattern, severity |-> "LOW",
            action |-> "NONE", explanation |-> "malformed pattern"]

\* Contents of rules/rules.json when the process starts (json.load, unchecked).
StartupRules == {<<RuleHurt, RuleDose>>, <<RuleDoseLc>>, <<RuleDose, RuleBad>>}

\* Request texts.
ChatTexts == {<<"Flu">>, <<"HURT", PhoneTok>>, <<"dose", EmailTok, AadhaarTok>>}

Dist(g, p, c, s) ==
    [k \in ClassSet |->
        CASE k = "general_info" -> g
          [] k = "prescription_request" -> p
          [] k = "procedural" -> c
          [] k = "self_harm" -> s]

\* Distributions the classifier may return for a request.
ChatDists ==
    {Dist(900, 50, 30, 20),   \* benign, top score 0.9
     Dist(400, 300, 200, 100), \* nothing reaches a threshold, top score 0.4
     Dist(350, 450, 150, 50),  \* prescription_request between warn and block
     Dist(200, 50, 50, 700)}   \* self_harm over its block threshold

\* Bodies POSTed to /admin/rules: a JSON array of rules or a JSON object.
RuleBodies ==
    {[kind |-> "list", value |-> <<RuleDoseLc>>],
     [kind |-> "list", value |-> <<>>],
     [kind |-> "dict", value |-> <<RuleDoseLc>>]}

ReviewActions == {"allow", "block", "ignore", "delete"}

\* Audit ids named in review requests (a row with that id may not exist).
AuditIds == {1, 2}

\* ----------------------------------------------------------------- state
VARIABLES
    RULES,      \* utils.RULES, the in-memory rule list
    rules_file, \* contents of rules/rules.json
    audits,     \* rows of the audits table, row i has id i
    METRICS,    \* the Counter of app.py
    pending,    \* chat requests suspended in `await req.json()`
    last,       \* the last request served and its response
    agg         \* inputs and result of a stand-alone decision_aggregator call

srv == <<RULES, rules_file, audits, METRICS, pending, last>>
vars == <<RULES, rules_file, audits, METRICS, pending, last, agg>>

NoResponse == [op |-> "none", status |-> 0]
AggOff == [phase |-> "off"]

\* ------------------------------------------------------------ audit table
\* json.dumps(value): the TEXT column holds the encoding, not the value.
JsonDumps(value) == [json |-> value]

\* insert_audit(audit): one new row, reviewer_decision NULL, id = lastrowid.
insert_audit(rows, audit) ==
    Append(rows,
           [id |-> Len(rows) + 1,
            timestamp |-> audit.timestamp,
            session_id |-> audit.session_id,
            raw_text |-> audit.raw_text,
            masked_text |-> audit.masked_text,
            pii |-> JsonDumps(audit.pii),
            decision |-> audit.decision,
            classifier_json |-> JsonDumps(audit.classifier),
            matched_rules |-> JsonDumps(audit.matched_rules),
            block_hits |-> JsonDumps(audit.block_hits),
            warn_hits |-> JsonDumps(audit.warn_hits),
            reviewer_decision |-> "NULL"])

\* Mutant: the UPDATE has no WHERE clause.
set_reviewer_decision_NoWhere(rows, aid, decision) ==
    [i \in 1..Len(rows) |-> [rows[i] EXCEPT !.reviewer_decision = decision]]

\* set_reviewer_decision(aid, decision):
\* UPDATE audits SET reviewer_decision=? WHERE id=?
set_reviewer_decision(rows, aid, decision) ==
    [i \in 1..Len(rows) |->
        IF rows[i].id = aid THEN [rows[i] EXCEPT !.reviewer_decision = decision]
        ELSE rows[i]]

\* --------------------------------------------------------------- responder
\* KB keys, lower-cased, as keywords.
KB == <<"flu", "pressure">>

KBAnswer(k) == IF k = "flu" THEN "kb:flu symptoms" ELSE "kb:normal blood pressure"

RECURSIVE LookupKB(_, _)
LookupKB(i, text) ==
    IF i > Len(KB) THEN "general information only; consult a licensed provider"
    ELSE IF Search(KB[i], text) THEN KBAnswer(KB[i])
    ELSE LookupKB(i + 1, text)

\* pass_through_llm(text)
pass_through_llm(text) == LookupKB(1, text)

\* ------------------------------------------------------------ chat_endpoint
\* The explain object built before the audit insert.
Explain(masked, pii, decision) ==
    [masked_text |-> masked,
     pii_detected |-> pii,
     matched_rules |->
        [i \in 1..Len(decision.matched_rules) |->
            [id |-> decision.matched_rules[i].id,
             explanation |-> decision.matched_rules[i].explanation,
             action |-> decision.matched_rules[i].action]],
     classifier |-> decision.classifier]

\* The audit_record dict handed to insert_audit.
AuditRecord(now, session_id, text, masked, pii, decision) ==
    [timestamp |-> now,
     session_id |-> session_id,
     raw_text |-> text,
     masked_text |-> masked,
     pii |-> pii,
     decision |-> decision.decision,
     classifier |-> decision.classifier,
     matched_rules |->
        [i \in 1..Len(decision.matched_rules) |-> decision.matched_rules[i].id],
     block_hits |-> IF "block_hits" \in DOMAIN decision
                    THEN decision.block_hits ELSE <<>>,
     warn_hits |-> IF "warn_hits" \in DOMAIN decision
                   THEN decision.warn_hits ELSE <<>>]

\* Mutant: no try/except around insert_audit.
AuditAttempt_NoExcept(db_ok) == IF db_ok THEN "stored" ELSE "propagated"

\* try: audit_id = insert_audit(audit_record) except Exception as e: ...
\* db_ok is whether sqlite accepts the insert; a sqlite3 error is an
\* Exception, so the handler catches it ("propagated" would leave the handler).
AuditAttempt(db_ok) == IF db_ok THEN "stored" ELSE "caught"

\* explain["audit_id"] = audit_id, or explain["audit_error"] = str(e).
ExplainAfterInsert(explain, rows, db_ok) ==
    IF db_ok THEN explain @@ ("audit_id" :> (Len(rows) + 1))
    ELSE explain @@ ("audit_error" :> "sqlite3.OperationalError")

RowsAfterInsert(rows, audit, db_ok) ==
    IF db_ok THEN insert_audit(rows, audit) ELSE rows

SafeResponse == "Sorry, I can't assist with that. This request appears unsafe."
WarningText == "This query appears risky."

\* Mutant: the BLOCK branch compares with a misspelt constant.
CallsResponder_Typo(decision) == decision # "Block"

\* The branch on decision["decision"]: whether pass_through_llm is called.
CallsResponder(decision) == decision # "BLOCK"

\* The JSONResponse of the three branches.
ChatBody(decision, masked, explain) ==
    IF ~CallsResponder(decision)
    THEN [decision |-> "BLOCK", safe_response |-> SafeResponse, explain |-> explain]
    ELSE IF decision = "WARN"
    THEN [decision |-> "WARN", llm_response |-> pass_through_llm(masked),
          warning |-> WarningText, explain |-> explain]
    ELSE [decision |-> "ALLOW", llm_response |-> pass_through_llm(masked),
          explain |-> explain]

\* METRICS after the branch.
CountDecision(m, decision) ==
    IF decision = "BLOCK" THEN [m EXCEPT !.blocked = @ + 1]
    ELSE IF decision = "WARN" THEN [m EXCEPT !.warned = @ + 1]
    ELSE [m EXCEPT !.allowed = @ + 1]

\* chat_endpoint from the point where `await req.json()` has returned.
\* Returns the response, the audit rows and METRICS it leaves.
chat_endpoint(rules, rows, metrics, session_id, text, dist, db_ok) ==
    LET now == metrics.requests
        m1 == [metrics EXCEPT !.last_request = now]
        pii_res == mask_pii(text)
        masked == pii_res.masked_text
        decision == decision_aggregator(rules, CLASS_THRESHOLDS, WARN_THRESHOLDS,
                                        masked, dist)
    IN IF decision.raised
       THEN [response |-> [op |-> "chat", status |-> 500, text |-> text,
                           dist |-> dist, decision |-> decision,
                           insert_raised |-> FALSE, responder_called |-> FALSE,
                           body |-> [detail |-> "Internal Server Error"]],
             audits |-> rows,
             metrics |-> m1]
       ELSE IF AuditAttempt(db_ok) = "propagated"
       THEN [response |-> [op |-> "chat", status |-> 500, text |-> text,
                           dist |-> dist, decision |-> decision,
                           insert_raised |-> TRUE, responder_called |-> FALSE,
                           body |-> [detail |-> "Internal Server Error"]],
             audits |-> rows,
             metrics |-> m1]
       ELSE LET explain0 == Explain(masked, pii_res.pii, decision)
                audit == AuditRecord(now, session_id, text, masked, pii_res.pii,
                                     decision)
                explain == ExplainAfterInsert(explain0, rows, db_ok)
            IN [response |-> [op |-> "chat", status |-> 200, text |-> text,
                              dist |-> dist, decision |-> decision,
                              insert_raised |-> ~db_ok,
                              responder_called |-> CallsResponder(decision.decision),
                              body |-> ChatBody(decision.decision, masked, explain)],
                audits |-> RowsAfterInsert(rows, audit, db_ok),
                metrics |-> CountDecision(m1, decision.decision)]

\* metrics_middleware: every HTTP request is counted before its handler runs.
Counted(m) == [m EXCEPT !.requests = @ + 1]

\* POST /api/chat arrives: the middleware counts it and the handler suspends
\* in `await req.json()`.
ChatArrive ==
    /\ METRICS.requests < MaxRequests
    /\ METRICS' = Counted(METRICS)
    /\ pending' = pending + 1
    /\ UNCHANGED <<RULES, rules_file, audits, last, agg>>

\* The body has been read: the rest of chat_endpoint runs without suspending.
ChatHandle ==
    /\ pending > 0
    /\ \E text \in ChatTexts, dist \in ChatDists, db_ok \in BOOLEAN :
          LET r == chat_endpoint(RULES, audits, METRICS, "anon", text, dist, db_ok)
          IN /\ audits' = r.audits
             /\ METRICS' = r.metrics
             /\ last' = r.response
    /\ pending' = pending - 1
    /\ UNCHANGED <<RULES, rules_file, agg>>

\* ---------------------------------------------------------- admin handlers
ValidReviewActions == {"allow", "block", "ignore"}

\* admin_review_decision(aid, action) behind check_admin.
admin_review_decision(rows, authorized, aid, action) ==
    IF ~authorized
    THEN [status |-> 401, audits |-> rows]
    ELSE IF action \notin ValidReviewActions
    THEN [status |-> 400, audits |-> rows]
    ELSE [status |-> 200, audits |-> set_reviewer_decision(rows, aid, action)]

AdminReviewDecision ==
    /\ METRICS.requests < MaxRequests
    /\ \E authorized \in BOOLEAN, aid \in AuditIds, action \in ReviewActions :
          LET r == admin_review_decision(audits, authorized, aid, action)
          IN /\ audits' = r.audits
             /\ last' = IF authorized
                        THEN [op |-> "review", status |-> r.status,
                              aid |-> aid, action |-> action]
                        ELSE [op |-> "review", status |-> r.status]
    /\ METRICS' = Counted(METRICS)
    /\ UNCHANGED <<RULES, rules_file, pending, agg>>

\* The body parameter is declared `new_rules: dict`: the framework validates
\* the JSON body against dict before the handler runs and answers 422 to a
\* JSON array.
ValidatesAsDict(body) == body.kind = "dict"

\* isinstance(new_rules, list)
IsList(body) == body.kind = "list"

\* admin_update_rules(new_rules) behind check_admin.
admin_update_rules(rules, file, authorized, body) ==
    IF ~authorized
    THEN [status |-> 401, RULES |-> rules, rules_file |-> file]
    ELSE IF ~ValidatesAsDict(body)
    THEN [status |-> 422, RULES |-> rules, rules_file |-> file]
    ELSE IF ~IsList(body)
    THEN [status |-> 400, RULES |-> rules, rules_file |-> file]
    ELSE [status |-> 200, RULES |-> body.value, rules_file |-> body.value]

AdminUpdateRules ==
    /\ METRICS.requests < MaxRequests
    /\ \E authorized \in BOOLEAN, body \in RuleBodies :
          LET r == admin_update_rules(RULES, rules_file, authorized, body)
          IN /\ RULES' = r.RULES
             /\ rules_file' = r.rules_file
             /\ last' = IF authorized
                        THEN [op |-> "rules", status |-> r.status, body |-> body]
                        ELSE [op |-> "rules", status |-> r.status]
    /\ METRICS' = Counted(METRICS)
    /\ UNCHANGED <<audits, pending, agg>>

\* ---------------------------------------------------------- specification
\* data/audit.db outlives the process (CREATE TABLE IF NOT EXISTS): the rows
\* an earlier run of chat_endpoint left, under the rule list <<RuleHurt>>.
SeedRow(rows, now, text, dist) ==
    LET pii_res == mask_pii(text)
        decision == decision_aggregator(<<RuleHurt>>, CLASS_THRESHOLDS,
                                        WARN_THRESHOLDS, pii_res.masked_text, dist)
    IN insert_audit(rows, AuditRecord(now, "anon", text, pii_res.masked_text,
                                      pii_res.pii, decision))

SeedAudits ==
    LET one == SeedRow(<<>>, 1, <<"HURT", PhoneTok>>, Dist(400, 300, 200, 100))
        two == SeedRow(one, 2, <<"dose", EmailTok, AadhaarTok>>,
                       Dist(350, 450, 150, 50))
    IN {<<>>, two}

\* After import: RULES loaded from rules/rules.json, init_db() done.
Init ==
    /\ rules_file \in StartupRules
    /\ RULES = rules_file
    /\ audits \in SeedAudits
    /\ METRICS = [requests |-> 0, allowed |-> 0, blocked |-> 0, warned |-> 0,
                  last_request |-> 0]
    /\ pending = 0
    /\ last = NoResponse
    /\ agg = AggOff

Next ==
    \/ ChatArrive
    \/ ChatHandle
    \/ AdminReviewDecision
    \/ AdminUpdateRules

Spec == Init /\ [][Next]_vars

\* ------------------------------------------- decision_aggregator on its own
\* The aggregator as a function of the rule list, the two threshold tables,
\* the text and the classifier's distribution: inputs drawn from bounded
\* sets, evaluated, then evaluated again after one configuration change
\* (rules added, or one threshold lowered).

\* Well-formed rule records (pattern compiles).
AggRules == {RuleHurt, RuleDose, RuleDoseLc}

\* Rule lists without repetition, up to MaxRules long.
RuleSeqs ==
    UNION {{q \in [1..n -> AggRules] : \A i, j \in 1..n : i # j => q[i] # q[j]}
           : n \in 0..MaxRules}

AggTexts == {<<"Flu">>, <<"dose">>, <<"dose", "HURT">>}

\* Distributions on a grid around the cut-offs, summing to at most 1
\* (the all-zero distribution included).
TopGrid == {0, 499, 500, 849, 850}
HazardGrid == {0, 100, 300, 450, 600}
AggDists ==
    {d \in {Dist(g, p, c, s) : g \in TopGrid, p \in HazardGrid,
                               c \in HazardGrid, s \in HazardGrid} :
        d["general_info"] + d["prescription_request"] + d["procedural"]
            + d["self_harm"] <= 1000}

\* Threshold tables: the configured one, one without warn thresholds (every
\* class takes the 0.6 x block fallback), one with high block thresholds and
\* a warn threshold for self_harm only.
ThresholdTables ==
    {[blk |-> CLASS_THRESHOLDS, warn |-> WARN_THRESHOLDS],
     [blk |-> CLASS_THRESHOLDS, warn |-> <<>>],
     [blk |-> [c \in DOMAIN CLASS_THRESHOLDS |->
                 CASE c = "self_harm" -> 1000
                   [] c = "prescription_request" -> 500
                   [] c = "procedural" -> 750],
      warn |-> [c \in {"self_harm"} |-> 900]]}

\* Values a threshold is lowered to.
LoweredTo == {100, 300, 600}

NoResult == [raised |-> FALSE, decision |-> "none"]

Evaluate(a) == decision_aggregator(a.rules, a.blk, a.warn, a.text, a.proba)

\* The configuration and result before the change.
Before(a) == [rules |-> a.rules, blk |-> a.blk, warn |-> a.warn, res |-> a.res]

Aggregate ==
    /\ agg.phase = "input"
    /\ agg' = [agg EXCEPT !.phase = "base", !.res = Evaluate(agg)]
    /\ UNCHANGED srv

AddRules ==
    /\ agg.phase = "base"
    /\ \E more \in RuleSeqs :
          /\ Len(more) > Len(agg.rules)
          /\ \A i \in 1..Len(agg.rules) : \E j \in 1..Len(more) : more[j] = agg.rules[i]
          /\ LET a == [agg EXCEPT !.rules = more]
             IN agg' = [a EXCEPT !.phase = "alt", !.change = "rules",
                                 !.prev = Before(agg), !.res = Evaluate(a)]
    /\ UNCHANGED srv

LowerBlockThreshold ==
    /\ agg.phase = "base"
    /\ \E c \in DOMAIN agg.blk, v \in LoweredTo :
          /\ v < agg.blk[c]
          /\ LET a == [agg EXCEPT !.blk[c] = v]
             IN agg' = [a EXCEPT !.phase = "alt", !.change = "block",
                                 !.prev = Before(agg), !.res = Evaluate(a)]
    /\ UNCHANGED srv

LowerWarnThreshold ==
    /\ agg.phase = "base"
    /\ \E c \in DOMAIN agg.warn, v \in LoweredTo :
          /\ v < agg.warn[c]
          /\ LET a == [agg EXCEPT !.warn[c] = v]
             IN agg' = [a EXCEPT !.phase = "alt", !.change = "warn",
                                 !.prev = Before(agg), !.res = Evaluate(a)]
    /\ UNCHANGED srv

InitAgg ==
    /\ agg \in {[phase |-> "input", rules |-> r, text |-> t, proba |-> d,
                 blk |-> tb.blk, warn |-> tb.warn, res |-> NoResult,
                 prev |-> NoResult, change |-> "none"] :
                r \in RuleSeqs, t \in AggTexts, d \in AggDists,
                tb \in ThresholdTables}
    /\ RULES = <<>>
    /\ rules_file = <<>>
    /\ audits = <<>>
    /\ METRICS = [requests |-> 0, allowed |-> 0, blocked |-> 0, warned |-> 0,
                  last_request |-> 0]
    /\ pending = 0
    /\ last = NoResponse

NextAgg ==
    \/ Aggregate
    \/ AddRules
    \/ LowerBlockThreshold
    \/ LowerWarnThreshold

SpecAgg == InitAgg /\ [][NextAgg]_vars

\* ------------------------------------------------------------------ claims
\* The order ALLOW < WARN < BLOCK.
Rank(d) == CASE d = "ALLOW" -> 0 [] d = "WARN" -> 1 [] d = "BLOCK" -> 2 [] OTHER -> -1

Evaluated == agg.phase \in {"base", "alt"}

\* Some rule of the list matches the text and is HIGH / BLOCK.
Tier1Matched(rules, text) ==
    \E i \in 1..Len(rules) :
        /\ Search(rules[i].pattern, text)
        /\ Upper(rules[i].severity) = "HIGH"
        /\ Upper(rules[i].action) = "BLOCK"

\* The classes at or over their block threshold, and those in
\* [warn threshold, block threshold), for the inputs held in agg.
WarnReached(c) ==
    IF c \in DOMAIN agg.warn THEN ProbOf(agg.proba, c) >= agg.warn[c]
    ELSE 10 * ProbOf(agg.proba, c) >= 6 * agg.blk[c]
BlockClasses == {c \in DOMAIN agg.blk : ProbOf(agg.proba, c) >= agg.blk[c]}
WarnClasses ==
    {c \in DOMAIN agg.blk : ProbOf(agg.proba, c) < agg.blk[c] /\ WarnReached(c)}
HitClasses(hits) == {hits[i].class : i \in 1..Len(hits)}
TopScore == CHOOSE p \in {agg.proba[c] : c \in ClassSet} :
                \A c \in ClassSet : agg.proba[c] <= p

\* C1: whenever a matched rule is HIGH/BLOCK, decision_aggregator returns
\* BLOCK, whatever the distribution (all zero included) and the thresholds.
C1_Tier1Precedence ==
    (Evaluated /\ Tier1Matched(agg.rules, agg.text))
        => (~agg.res.raised /\ agg.res.decision = "BLOCK")

C1_Witness ==
    /\ agg.phase = "base"
    /\ Tier1Matched(agg.rules, agg.text)
    /\ \A c \in ClassSet : agg.proba[c] = 0
    /\ agg.res.decision = "BLOCK"

\* C2: with no HIGH/BLOCK rule matched, every class of the block table is
\* examined: any class at or over its block threshold gives BLOCK with
\* block_hits listing exactly those classes (probability and threshold);
\* otherwise any class at or over its warn threshold (0.6 x block when none
\* is configured) gives WARN with warn_hits exactly the classes in
\* [warn threshold, block threshold).
C2_ThresholdCascade ==
    (Evaluated /\ ~Tier1Matched(agg.rules, agg.text)) =>
        /\ BlockClasses # {} =>
              /\ agg.res.decision = "BLOCK"
              /\ "block_hits" \in DOMAIN agg.res
              /\ HitClasses(agg.res.block_hits) = BlockClasses
              /\ Len(agg.res.block_hits) = Cardinality(BlockClasses)
              /\ \A i \in 1..Len(agg.res.block_hits) :
                    /\ agg.res.block_hits[i].prob
                         = ProbOf(agg.proba, agg.res.block_hits[i].class)
                    /\ agg.res.block_hits[i].threshold
                         = agg.blk[agg.res.block_hits[i].class]
        /\ (BlockClasses = {} /\ \E c \in DOMAIN agg.blk : WarnReached(c)) =>
              /\ agg.res.decision = "WARN"
              /\ "warn_hits" \in DOMAIN agg.res
              /\ HitClasses(agg.res.warn_hits) = WarnClasses
              /\ Len(agg.res.warn_hits) = Cardinality(WarnClasses)

\* One class below its warn threshold, another between its warn and block
\* thresholds and not the top label: WARN, warn_hits exactly that class.
C2_Witness ==
    /\ Evaluated
    /\ ~Tier1Matched(agg.rules, agg.text)
    /\ agg.res.decision = "WARN"
    /\ "warn_hits" \in DOMAIN agg.res
    /\ Len(agg.res.warn_hits) = 1
    /\ agg.res.warn_hits[1].class # agg.res.classifier.label
    /\ \E c \in DOMAIN agg.blk : ProbOf(agg.proba, c) > 0 /\ ~WarnReached(c)

\* C3: a request whose top label is general_info with top score 0.9, with no
\* hazardous class at its warn threshold and no matching rule, is answered
\* ALLOW and the responder is invoked.
C3_BenignAllowed ==
    (/\ last.op = "chat"
     /\ last.status = 200
     /\ last.decision.classifier.label = "general_info"
     /\ last.decision.classifier.score = 900
     /\ last.decision.matched_rules = <<>>
     /\ \A c \in DOMAIN WARN_THRESHOLDS : last.dist[c] < WARN_THRESHOLDS[c])
        => (last.body.decision = "ALLOW" /\ last.responder_called)

\* C4: lowering one block threshold or one warn threshold, all else fixed,
\* never moves the decision down in ALLOW < WARN < BLOCK.
C4_ThresholdMonotone ==
    (/\ agg.phase = "alt"
     /\ agg.change \in {"block", "warn"}
     /\ agg.rules = agg.prev.rules)
        => Rank(agg.res.decision) >= Rank(agg.prev.res.decision)

\* C5: with the same thresholds, text and distribution, a rule list that
\* contains every rule of another decides at least as severely.
C5_RuleMonotone ==
    (/\ agg.phase = "alt"
     /\ agg.blk = agg.prev.blk
     /\ agg.warn = agg.prev.warn
     /\ \A i \in 1..Len(agg.prev.rules) :
           \E j \in 1..Len(agg.rules) : agg.rules[j] = agg.prev.rules[i])
        => Rank(agg.res.decision) >= Rank(agg.prev.res.decision)

C5_Witness ==
    /\ agg.phase = "alt"
    /\ agg.change = "rules"
    /\ agg.prev.res.decision = "ALLOW"
    /\ agg.res.decision = "BLOCK"
    /\ Len(agg.prev.rules) > 0

\* C6: with no HIGH/BLOCK rule matched and no block-hit or warn-hit, the
\* decision is BLOCK from top score 0.85 up, WARN from 0.5 up to 0.85, ALLOW
\* below 0.5; every evaluation returns one of ALLOW, WARN, BLOCK.
C6_FallbackBoundaries ==
    Evaluated =>
        /\ agg.res.decision \in {"ALLOW", "WARN", "BLOCK"}
        /\ (/\ ~Tier1Matched(agg.rules, agg.text)
            /\ BlockClasses = {}
            /\ WarnClasses = {})
              => agg.res.decision =
                    (IF TopScore >= 850 THEN "BLOCK"
                     ELSE IF TopScore >= 500 THEN "WARN" ELSE "ALLOW")

C6_Witness ==
    /\ Evaluated
    /\ ~Tier1Matched(agg.rules, agg.text)
    /\ BlockClasses = {}
    /\ WarnClasses = {}
    /\ TopScore = 850
    /\ agg.res.decision = "BLOCK"

\* The masked text of the last chat request.
LastMasked == mask_pii(last.text).masked_text

\* A response body without the audit entry of its explain object.
WithoutAudit(body) ==
    [body EXCEPT !.explain =
        [k \in DOMAIN body.explain \ {"audit_id", "audit_error"} |-> body.explain[k]]]

\* C7: pass_through_llm is invoked only when the decision is ALLOW or WARN;
\* on BLOCK it is not invoked and the response carries the fixed safe-refusal
\* message and no llm_response.
C7_ResponderOnlyUnlessBlock ==
    last.op = "chat" =>
        /\ (last.responder_called \/ "llm_response" \in DOMAIN last.body)
              => (~last.decision.raised
                  /\ last.decision.decision \in {"ALLOW", "WARN"})
        /\ (~last.decision.raised /\ last.decision.decision = "BLOCK")
              => /\ ~last.responder_called
                 /\ "llm_response" \notin DOMAIN last.body
                 /\ "safe_response" \in DOMAIN last.body
                 /\ last.body.safe_response = SafeResponse
                 /\ last.body.decision = "BLOCK"

C7_Witness ==
    /\ last.op = "chat"
    /\ last.status = 200
    /\ last.decision.decision = "BLOCK"
    /\ last.body.safe_response = SafeResponse
    /\ ~last.responder_called
    /\ METRICS.warned + METRICS.allowed > 0

\* C8: when insert_audit raises, the request still gets its normal response:
\* the decision is the aggregator's, the branch (refusal or responder) is the
\* one taken when the insert succeeds, and explain carries audit_error in
\* place of audit_id.
C8_AuditFailureNonFatal ==
    (last.op = "chat" /\ last.insert_raised) =>
        /\ last.status = 200
        /\ last.body.decision = last.decision.decision
        /\ "audit_error" \in DOMAIN last.body.explain
        /\ "audit_id" \notin DOMAIN last.body.explain
        /\ last.responder_called = (last.decision.decision # "BLOCK")
        /\ ("llm_response" \in DOMAIN last.body) = (last.decision.decision # "BLOCK")
        /\ ("safe_response" \in DOMAIN last.body) = (last.decision.decision = "BLOCK")
        /\ WithoutAudit(last.body)
             = WithoutAudit(ChatBody(last.decision.decision, LastMasked,
                   ExplainAfterInsert(
                       Explain(LastMasked, mask_pii(last.text).pii, last.decision),
                       audits, TRUE)))

C8_Witness ==
    /\ last.op = "chat"
    /\ last.insert_raised
    /\ last.status = 200
    /\ last.body.decision = "WARN"
    /\ "audit_error" \in DOMAIN last.body.explain
    /\ "llm_response" \in DOMAIN last.body

\* C9: a step changes an audit row only when it serves an authorized review
\* request with action allow, block or ignore for that row's id, and then
\* only the row's reviewer_decision; rows are never removed; a review with
\* any other action is answered 400 and changes no row.
ReviewServed ==
    /\ METRICS'.requests = METRICS.requests + 1
    /\ pending' = pending
    /\ last'.op = "review"

C9_ReviewFrameStep ==
    /\ Len(audits') >= Len(audits)
    /\ \A i \in 1..Len(audits) :
          \/ audits'[i] = audits[i]
          \/ /\ ReviewServed
             /\ last'.status = 200
             /\ last'.aid = audits[i].id
             /\ last'.action \in {"allow", "block", "ignore"}
             /\ audits'[i] = [audits[i] EXCEPT !.reviewer_decision = last'.action]
    /\ (ReviewServed /\ last'.status # 401
        /\ last'.action \notin {"allow", "block", "ignore"})
          => (last'.status = 400 /\ audits' = audits)

C9_ReviewFrame == [][C9_ReviewFrameStep]_vars

\* A review has annotated one of two rows; the other row has no annotation.
C9_Witness ==
    /\ last.op = "review"
    /\ last.status = 200
    /\ Len(audits) >= 2
    /\ \E i, j \in 1..Len(audits) :
          /\ i # j
          /\ audits[i].id = last.aid
          /\ audits[i].reviewer_decision = last.action
          /\ audits[j].reviewer_decision = "NULL"
          /\ audits[i].decision = "BLOCK"

\* C11: a rule whose pattern is not a valid regular expression is rejected
\* when the rule set is loaded at startup or replaced by admin_update_rules:
\* the active rule list never holds one, and no chat request fails at match
\* time because of one.
C11_ConfigErrorsFailAtLoad ==
    /\ \A i \in 1..Len(RULES) : Compiles(RULES[i].pattern)
    /\ last.op = "chat" => ~last.decision.raised

\* The {id, explanation, action} entries of the matched rules, in list order.
RuleEntries(matched) ==
    [i \in 1..Len(matched) |->
        [id |-> matched[i].id,
         explanation |-> matched[i].explanation,
         action |-> matched[i].action]]

\* C12: the explain object of every answered chat request holds the masked
\* text, the PII categories, one {id, explanation, action} entry per matched
\* rule in configuration order, the classifier result and, whenever
\* decision_aggregator recorded block_hits or warn_hits, those hit lists.
C12_ExplainComplete ==
    (last.op = "chat" /\ last.status = 200) =>
        LET e == last.body.explain
            d == last.decision
        IN /\ e.masked_text = LastMasked
           /\ e.pii_detected = mask_pii(last.text).pii
           /\ e.matched_rules = RuleEntries(d.matched_rules)
           /\ e.classifier = d.classifier
           /\ "block_hits" \in DOMAIN d
                 => ("block_hits" \in DOMAIN e /\ e.block_hits = d.block_hits)
           /\ "warn_hits" \in DOMAIN d
                 => ("warn_hits" \in DOMAIN e /\ e.warn_hits = d.warn_hits)

\* C13: when an authorized administrator posts a list of rule records to
\* admin_update_rules, the request is accepted and the in-memory rule list
\* is exactly that list, in the same order.
C13_ReplacementTakesEffect ==
    (/\ last.op = "rules"
     /\ "body" \in DOMAIN last
     /\ last.body.kind = "list")
        => (last.status = 200 /\ RULES = last.body.value)

====
